---- MODULE Spec2Model ----
(***************************************************************************)
(* Column-generation cutting stock solver (server/cutting_stock_solver.py). *)
(* One process reads one request, runs CuttingStockSolver.solve and prints  *)
(* the returned dictionary.  The LP/IP backend (pulp + CBC) is a library:   *)
(* each backend call is modelled by its contract (an optimal solution of    *)
(* the problem the code built, chosen nondeterministically among the        *)
(* optimal ones; a non-optimal status with no values when the problem has   *)
(* no optimum).  Rational numbers are pairs numerator / denominator.        *)
(* The prose and timing fields of the result (algorithmSteps,               *)
(* cuttingInstructions, executionTime, memoryUsage) and its two rounded     *)
(* float ratios (efficiency, wastePercentage) are left out.                 *)
(***************************************************************************)
EXTENDS Integers, Sequences, FiniteSets, TLC

\* ---------------------------------------------------------------- bounds
MaxL == 3
MaxTypes == 2
MaxQty == 2

\* ------------------------------------------------------ program constants
max_iterations == 50
ThresholdScale == 100000

\* ----------------------------------------------------------- arithmetic
Abs(a) == IF a < 0 THEN 0 - a ELSE a

RECURSIVE Gcd(_, _)
Gcd(a, b) == IF b = 0 THEN Abs(a) ELSE Gcd(b, a % Abs(b))

RECURSIVE GcdSeq(_)
GcdSeq(s) == IF s = <<>> THEN 0 ELSE Gcd(Head(s), GcdSeq(Tail(s)))

\* Python's a // b (floor division), b # 0
FloorDiv(a, b) == IF b > 0 THEN a \div b ELSE (0 - a) \div (0 - b)

CeilDiv(a, b) == 0 - ((0 - a) \div b)

RECURSIVE SumSeq(_)
SumSeq(s) == IF s = <<>> THEN 0 ELSE Head(s) + SumSeq(Tail(s))

Dot(a, b) == SumSeq([i \in 1..Len(a) |-> a[i] * b[i]])

Range(s) == {s[i] : i \in 1..Len(s)}

MaxOf(s) == CHOOSE m \in Range(s) : \A k \in Range(s) : k <= m

Zeros(n) == [i \in 1..n |-> 0]

\* ------------------------------------------------------------- requests
Lengths == (0 - 1)..MaxL
Quantities == 0..MaxQty

DemandLists ==
    UNION {[lengths : [1..n -> Lengths], quantities : [1..n -> Quantities]] : n \in 0..MaxTypes}

Unreadable == [readable |-> FALSE, L |-> 1, lengths |-> <<>>, quantities |-> <<>>]

Requests ==
    {Unreadable} \cup
    {[readable |-> TRUE, L |-> l, lengths |-> d.lengths, quantities |-> d.quantities] :
        l \in 1..MaxL, d \in DemandLists}

VARIABLES request, lowVar, pc, patterns, iteration, duals, new_pattern, reduced_cost,
          patterns_evaluated, solution, result, exit_code,
          lpCalls, knapCalls, ipCalls, nonOptimal, loopExit

vars == <<request, lowVar, pc, patterns, iteration, duals, new_pattern, reduced_cost,
          patterns_evaluated, solution, result, exit_code,
          lpCalls, knapCalls, ipCalls, nonOptimal, loopExit>>

master_roll_length == request.L
unique_lengths == request.lengths
unique_quantities == request.quantities
num_types == Len(request.lengths)


ValidInput ==
    /\ request.readable
    /\ num_types >= 1
    /\ \A i \in 1..num_types : unique_lengths[i] > 0 /\ unique_quantities[i] >= 1
    /\ master_roll_length >= MaxOf(unique_lengths)

\* --------------------------------------------- _generate_initial_patterns
\* (variant: the quotient rounded up instead of down)
SeedEntryCeil(L, len) == IF len > 0 THEN CeilDiv(L, len) ELSE FloorDiv(L, len)

\* pattern[i] = master_roll_length // unique_lengths[i]
SeedEntry(L, len) == FloorDiv(L, len)

generate_initial_patterns(L, n, lens) ==
    [i \in 1..n |-> [k \in 1..n |-> IF k = i THEN SeedEntry(L, lens[i]) ELSE 0]]

\* ------------------------------------------ master problem (LP and integer)
\* The master problem has a solution with non-negative counts.  Every pool
\* the solver builds is either the seed pool (diagonal) or has no negative
\* entry, and for those this test is exact.
MasterFeasible(pool, q) ==
    \A i \in 1..Len(q) : q[i] <= 0 \/ \E j \in 1..Len(pool) : pool[j][i] > 0

\* Determinant by expansion along the first row.
Minor(M, j) ==
    [r \in 1..(Len(M) - 1) |-> [c \in 1..(Len(M) - 1) |-> M[r + 1][IF c < j THEN c ELSE c + 1]]]

RECURSIVE Det(_)
Det(M) ==
    IF Len(M) = 1 THEN M[1][1]
    ELSE SumSeq([j \in 1..Len(M) |->
                    (IF j % 2 = 1 THEN 1 ELSE 0 - 1) * M[1][j] * Det(Minor(M, j))])

UnitRow(n, i) == [k \in 1..n |-> IF k = i THEN 1 ELSE 0]

\* Constraints of the dual of the master LP: pattern . pi <= 1, pi >= 0.
DualRows(pool, n) ==
    {[coef |-> p, rhs |-> 1] : p \in Range(pool)} \cup
    {[coef |-> UnitRow(n, i), rhs |-> 0] : i \in 1..n}

AsSeq(B) ==
    CHOOSE f \in [1..Cardinality(B) -> B] : \A i, j \in 1..Cardinality(B) : i # j => f[i] # f[j]

Normalised(num, den) ==
    LET sgn == IF den < 0 THEN 0 - 1 ELSE 1
        g == Gcd(den, GcdSeq(num))
    IN [num |-> [i \in 1..Len(num) |-> (sgn * num[i]) \div g], den |-> (sgn * den) \div g]

\* The point where the n constraints of B are tight (Cramer's rule).
BasisMatrix(B) == LET rows == AsSeq(B) IN [r \in 1..Len(rows) |-> rows[r].coef]

BasisPoint(B) ==
    LET rows == AsSeq(B)
        n == Len(rows)
        A == [r \in 1..n |-> rows[r].coef]
    IN Normalised([i \in 1..n |->
                      Det([r \in 1..n |-> [c \in 1..n |-> IF c = i THEN rows[r].rhs ELSE A[r][c]]])],
                  Det(A))

DualFeasible(pool, v) ==
    /\ \A i \in 1..Len(v.num) : v.num[i] >= 0
    /\ \A p \in Range(pool) : Dot(p, v.num) <= v.den

DualVertices(pool, n) ==
    LET rows == DualRows(pool, n)
        bases == {B \in SUBSET rows : Cardinality(B) = n /\ Det(BasisMatrix(B)) # 0}
    IN {v \in {BasisPoint(B) : B \in bases} : DualFeasible(pool, v)}

\* Shadow prices of the demand constraints at an optimum of the master LP:
\* the optimal vertices of its dual, max q . pi.
OptimalDuals(pool, q) ==
    LET V == DualVertices(pool, Len(q))
    IN {v \in V : \A w \in V : Dot(q, w.num) * v.den <= Dot(q, v.num) * w.den}

ZeroDuals(n) == [num |-> Zeros(n), den |-> 1]

\* _solve_master_lp: status of the backend call and the duals the code
\* extracts (constraint.pi, or 0 where the backend left it None).
solve_master_lp(pool, q) ==
    IF MasterFeasible(pool, q)
    THEN {[status |-> "Optimal", duals |-> v] : v \in OptimalDuals(pool, q)}
    ELSE {[status |-> "Infeasible", duals |-> ZeroDuals(Len(q))]}

\* ---------------------------------------------------- pricing subproblem
\* (variant: the capacity constraint one unit too wide)
KnapsackPatternsLoose(L, lens) ==
    {y \in [1..Len(lens) -> 0..(L + 1)] : Dot(lens, y) <= L + 1}

\* y[i] >= 0 integer, lpSum(unique_lengths[i] * y[i]) <= master_roll_length
KnapsackPatterns(L, lens) ==
    {y \in [1..Len(lens) -> 0..L] : Dot(lens, y) <= L}

OptimalKnapsack(d, L, lens) ==
    LET Y == KnapsackPatterns(L, lens)
    IN {y \in Y : \A z \in Y : Dot(d.num, z) <= Dot(d.num, y)}

\* int(y[i].varValue): truncation toward zero of the float the backend
\* reports; the value of variable low is reported just below its integer.
ReportedPattern(y, low) ==
    [i \in 1..Len(y) |-> IF i = low /\ y[i] >= 1 THEN y[i] - 1 ELSE y[i]]

\* reduced_cost = 1 - value(objective)
ReducedCost(d, y) == [num |-> d.den - Dot(d.num, y), den |-> d.den]

\* (variant: convergence only on a strictly positive reduced cost)
ConvergedStrict(rc) == rc.num > 0

\* reduced_cost >= self.reduced_cost_threshold  (-1e-5)
Converged(rc) == rc.num * ThresholdScale >= 0 - rc.den

\* _solve_knapsack: the objective is empty when every dual is 0 (pulp drops
\* zero coefficients), and then its value is 0.  The problem is unbounded
\* when a piece of negative length makes room for a priced piece without
\* limit; the backend then reports no optimum: either the values stay None
\* (the pattern is all 0 and 1 - None raises TypeError) or they are reported
\* as 0 (the pattern is all 0 and the reduced cost is 1).
solve_knapsack(d, L, lens, low) ==
    IF \A i \in 1..Len(lens) : d.num[i] = 0
    THEN {[status |-> "Optimal", raised |-> FALSE, pattern |-> Zeros(Len(lens)),
           reduced_cost |-> [num |-> 1, den |-> 1]]}
    ELSE IF \E i \in 1..Len(lens) : lens[i] <= 0
    THEN {[status |-> "Unbounded", raised |-> b, pattern |-> Zeros(Len(lens)),
           reduced_cost |-> [num |-> 1, den |-> 1]] : b \in BOOLEAN}
    ELSE {[status |-> "Optimal", raised |-> FALSE, pattern |-> ReportedPattern(y, low),
           reduced_cost |-> ReducedCost(d, y)] : y \in OptimalKnapsack(d, L, lens)}

\* ------------------------------------------------- integer master problem
\* (variant: each demand constraint one piece short)
DemandMetSlack(res) == \A i \in 1..Len(res) : res[i] <= 1

\* The demand constraints of the master problem, on the demand res left
\* uncovered:  lpSum(patterns[j][i] * x[j]) >= unique_quantities[i].
DemandMet(res) == \A i \in 1..Len(res) : res[i] <= 0

\* Count vectors over the distinct patterns D[k..] that use exactly b rolls
\* and cover the residual demand res.
RECURSIVE CountVectors(_, _, _, _)
CountVectors(D, res, k, b) ==
    IF k > Len(D)
    THEN IF b = 0 /\ DemandMet(res) THEN {<<>>} ELSE {}
    ELSE UNION {{<<c>> \o t :
                    t \in CountVectors(D, [i \in 1..Len(res) |-> res[i] - c * D[k][i]], k + 1, b - c)} :
                c \in 0..b}

DistinctPatterns(pool) ==
    LET first == {j \in 1..Len(pool) : \A k \in 1..(j - 1) : pool[k] # pool[j]}
        idx == CHOOSE f \in [1..Cardinality(first) -> first] :
                   \A a, b \in 1..Cardinality(first) : a < b => f[a] < f[b]
    IN [k \in 1..Cardinality(first) |-> pool[idx[k]]]

RollsUpperBound(q) == SumSeq([i \in 1..Len(q) |-> IF q[i] > 0 THEN q[i] ELSE 0])

\* Objective value of the integer master problem: the least number of rolls.
MinRolls(pool, q) ==
    LET D == DistinctPatterns(pool)
    IN CHOOSE z \in 0..RollsUpperBound(q) :
          /\ CountVectors(D, q, 1, z) # {}
          /\ \A w \in 0..(z - 1) : CountVectors(D, q, 1, w) = {}

\* The count of a distinct pattern is reported on one of its equal columns.
RECURSIVE Spread(_, _, _, _, _)
Spread(D, cv, pool, k, x) ==
    IF k > Len(D) THEN {x}
    ELSE IF cv[k] = 0 THEN Spread(D, cv, pool, k + 1, x)
    ELSE UNION {Spread(D, cv, pool, k + 1, [x EXCEPT ![j] = cv[k]]) :
                j \in {i \in 1..Len(pool) : pool[i] = D[k]}}

OptimalCounts(pool, q) ==
    LET D == DistinctPatterns(pool)
    IN UNION {Spread(D, cv, pool, 1, Zeros(Len(pool))) : cv \in CountVectors(D, q, 1, MinRolls(pool, q))}

\* _solve_master_integer: status of the backend call and the solution list
\* (var.varValue, or 0 where the backend left it None).
solve_master_integer(pool, q) ==
    IF MasterFeasible(pool, q)
    THEN {[status |-> "Optimal", solution |-> x] : x \in OptimalCounts(pool, q)}
    ELSE {[status |-> "Infeasible", solution |-> Zeros(Len(pool))]}

\* ------------------------------------------------------ result composition
PatternWaste(L, lens, p) == L - Dot(lens, p)

RECURSIVE Cuts(_, _, _)
Cuts(lens, p, j) ==
    IF j > Len(p) THEN <<>>
    ELSE (IF p[j] > 0 THEN <<[length |-> lens[j], quantity |-> p[j]]>> ELSE <<>>)
         \o Cuts(lens, p, j + 1)

RECURSIVE CuttingPatterns(_, _, _, _, _)
CuttingPatterns(pool, x, L, lens, i) ==
    IF i > Len(pool) THEN <<>>
    ELSE (IF x[i] > 0
          THEN <<[id |-> i, cuts |-> Cuts(lens, pool[i], 1),
                  totalLength |-> L - PatternWaste(L, lens, pool[i]),
                  waste |-> PatternWaste(L, lens, pool[i]), rollsUsed |-> x[i]]>>
          ELSE <<>>)
         \o CuttingPatterns(pool, x, L, lens, i + 1)

NoResult ==
    [kind |-> "none", error |-> "", totalRolls |-> 0, totalWaste |-> 0, patterns |-> <<>>,
     iterations |-> 0, patternsEvaluated |-> 0, convergence |-> ""]

ErrorResult(msg) == [NoResult EXCEPT !.kind = "error", !.error = msg]

NormalResult(pool, x, L, lens, q, iters, evaluated) ==
    [kind |-> "normal", error |-> "",
     totalRolls |-> SumSeq(x),
     totalWaste |-> SumSeq(x) * L - Dot(lens, q),
     patterns |-> CuttingPatterns(pool, x, L, lens, 1),
     iterations |-> iters, patternsEvaluated |-> evaluated,
     convergence |-> "optimal"]

\* ----------------------------------------------------------------- state
NotExited == 0 - 1

Start ==
    /\ request \in Requests
    /\ pc = "main"
    /\ patterns = <<>>
    /\ iteration = 0
    /\ duals = ZeroDuals(0)
    /\ new_pattern = <<>>
    /\ reduced_cost = [num |-> 0, den |-> 1]
    /\ patterns_evaluated = 0
    /\ solution = <<>>
    /\ result = NoResult
    /\ exit_code = NotExited
    /\ lpCalls = 0
    /\ knapCalls = 0
    /\ ipCalls = 0
    /\ nonOptimal = FALSE
    /\ loopExit = "none"

\* The backend reports every integer value exactly.
Init == Start /\ lowVar = 0

\* The backend may report the value of one pricing variable just below its
\* integer value (solver rounding).
InitRounding == Start /\ lowVar \in 0..Len(request.lengths)

\* solve returns the error dictionary built by its except clause.
Raise(msg) ==
    /\ result' = ErrorResult(msg)
    /\ pc' = "returned"

\* main: json.loads(sys.stdin.read()) or a key lookup raises; the except
\* clause prints the error and exits with 1.
MainReadFails ==
    /\ pc = "main"
    /\ ~request.readable
    /\ result' = ErrorResult("request")
    /\ exit_code' = 1
    /\ pc' = "exited"
    /\ UNCHANGED <<request, lowVar, patterns, iteration, duals, new_pattern, reduced_cost,
                   patterns_evaluated, solution, lpCalls, knapCalls, ipCalls, nonOptimal, loopExit>>

\* main calls solver.solve(...)
MainCallsSolve ==
    /\ pc = "main"
    /\ request.readable
    /\ pc' = "solve"
    /\ UNCHANGED <<request, lowVar, patterns, iteration, duals, new_pattern, reduced_cost,
                   patterns_evaluated, solution, result, exit_code,
                   lpCalls, knapCalls, ipCalls, nonOptimal, loopExit>>

\* solve, lines 22-29: max() of an empty list raises ValueError; the one
\* explicit check raises ValueError.
MinOf(s) == CHOOSE m \in Range(s) : \A k \in Range(s) : m <= k

\* (variant: the roll compared with the shortest beam)
ValidationFailsMin ==
    \/ num_types = 0
    \/ master_roll_length < MinOf(unique_lengths)

ValidationFails ==
    \/ num_types = 0
    \/ master_roll_length < MaxOf(unique_lengths)

Validate ==
    /\ pc = "solve"
    /\ IF ValidationFails
       THEN Raise(IF num_types = 0 THEN "max() arg is an empty sequence"
                  ELSE "Master roll length must be at least as long as the longest beam")
       ELSE pc' = "seed" /\ UNCHANGED result
    /\ UNCHANGED <<request, lowVar, patterns, iteration, duals, new_pattern, reduced_cost,
                   patterns_evaluated, solution, exit_code,
                   lpCalls, knapCalls, ipCalls, nonOptimal, loopExit>>

\* solve, lines 44-48: master_roll_length // 0 raises ZeroDivisionError.
GenerateInitialPatterns ==
    /\ pc = "seed"
    /\ IF \E i \in 1..num_types : unique_lengths[i] = 0
       THEN /\ Raise("integer division or modulo by zero")
            /\ UNCHANGED <<patterns, patterns_evaluated>>
       ELSE /\ patterns' = generate_initial_patterns(master_roll_length, num_types, unique_lengths)
            /\ patterns_evaluated' = patterns_evaluated + num_types
            /\ pc' = "loop"
            /\ UNCHANGED result
    /\ UNCHANGED <<request, lowVar, iteration, duals, new_pattern, reduced_cost,
                   solution, exit_code, lpCalls, knapCalls, ipCalls, nonOptimal, loopExit>>

\* iteration += 1; _solve_master_lp(...)
SolveMasterLP ==
    /\ pc = "loop"
    /\ iteration' = iteration + 1
    /\ \E r \in solve_master_lp(patterns, unique_quantities) :
          /\ duals' = r.duals
          /\ nonOptimal' = (nonOptimal \/ r.status # "Optimal")
    /\ lpCalls' = lpCalls + 1
    /\ pc' = "pricing"
    /\ UNCHANGED <<request, lowVar, patterns, new_pattern, reduced_cost, patterns_evaluated,
                   solution, result, exit_code, knapCalls, ipCalls, loopExit>>

\* _solve_knapsack(...); patterns_evaluated += 1
SolveKnapsack ==
    /\ pc = "pricing"
    /\ knapCalls' = knapCalls + 1
    /\ \E k \in solve_knapsack(duals, master_roll_length, unique_lengths, lowVar) :
          /\ nonOptimal' = (nonOptimal \/ k.status # "Optimal")
          /\ IF k.raised
             THEN /\ Raise("unsupported operand type(s) for -: 'int' and 'NoneType'")
                  /\ UNCHANGED <<new_pattern, reduced_cost, patterns_evaluated>>
             ELSE /\ new_pattern' = k.pattern
                  /\ reduced_cost' = k.reduced_cost
                  /\ patterns_evaluated' = patterns_evaluated + 1
                  /\ pc' = "check"
                  /\ UNCHANGED result
    /\ UNCHANGED <<request, lowVar, patterns, iteration, duals, solution, exit_code,
                   lpCalls, ipCalls, loopExit>>

\* if reduced_cost >= self.reduced_cost_threshold: break
\* patterns.append(new_pattern), then the test of the while statement:
\* the loop goes on while iteration < max_iterations
CheckConvergence ==
    /\ pc = "check"
    /\ IF Converged(reduced_cost)
       THEN /\ loopExit' = "converged"
            /\ pc' = "integer"
            /\ UNCHANGED patterns
       ELSE /\ patterns' = Append(patterns, new_pattern)
            /\ IF iteration < max_iterations
               THEN pc' = "loop" /\ UNCHANGED loopExit
               ELSE pc' = "integer" /\ loopExit' = "exhausted"
    /\ UNCHANGED <<request, lowVar, iteration, duals, new_pattern, reduced_cost,
                   patterns_evaluated, solution, result, exit_code,
                   lpCalls, knapCalls, ipCalls, nonOptimal>>

\* _solve_master_integer(...) and the composition of the returned dictionary
SolveMasterInteger ==
    /\ pc = "integer"
    /\ ipCalls' = ipCalls + 1
    /\ \E s \in solve_master_integer(patterns, unique_quantities) :
          /\ nonOptimal' = (nonOptimal \/ s.status # "Optimal")
          /\ solution' = s.solution
          /\ result' = NormalResult(patterns, s.solution, master_roll_length, unique_lengths,
                                    unique_quantities, iteration, patterns_evaluated)
    /\ pc' = "returned"
    /\ UNCHANGED <<request, lowVar, patterns, iteration, duals, new_pattern, reduced_cost,
                   patterns_evaluated, exit_code, lpCalls, knapCalls, loopExit>>

\* main: print(json.dumps(result)); the process ends with exit code 0
MainPrints ==
    /\ pc = "returned"
    /\ exit_code' = 0
    /\ pc' = "exited"
    /\ UNCHANGED <<request, lowVar, patterns, iteration, duals, new_pattern, reduced_cost,
                   patterns_evaluated, solution, result,
                   lpCalls, knapCalls, ipCalls, nonOptimal, loopExit>>

Next ==
    \/ MainReadFails
    \/ MainCallsSolve
    \/ Validate
    \/ GenerateInitialPatterns
    \/ SolveMasterLP
    \/ SolveKnapsack
    \/ CheckConvergence
    \/ SolveMasterInteger
    \/ MainPrints

Spec == Init /\ [][Next]_vars

SpecRounding == InitRounding /\ [][Next]_vars

\* Shape of every pool the solver builds (what MasterFeasible relies on).
PoolShape ==
    \/ \A j \in 1..Len(patterns) : \A i \in 1..num_types : patterns[j][i] >= 0
    \/ patterns = generate_initial_patterns(master_roll_length, num_types, unique_lengths)

\* ---------------------------------------------------------------- claims
Returned == pc \in {"returned", "exited"}

NormalReturn == Returned /\ result.kind = "normal"

BackendCalls == lpCalls + knapCalls + ipCalls

\* C1: demand satisfaction.  For a valid input, whenever solve returns a
\* normal result, the roll counts of the final integer master solve cover
\* every demand: sum over the pool of patterns[j][i] * x[j] >= quantity[i].
C1_DemandSatisfaction ==
    (ValidInput /\ NormalReturn) =>
        \A i \in 1..num_types :
            SumSeq([j \in 1..Len(patterns) |-> patterns[j][i] * solution[j]])
                >= unique_quantities[i]

C1_Witness ==
    /\ ValidInput /\ NormalReturn
    /\ Len(patterns) > num_types
    /\ solution[Len(patterns)] > 0

TooShort ==
    /\ request.readable
    /\ num_types >= 1
    /\ master_roll_length < MaxOf(unique_lengths)

\* C2: when the master roll is shorter than the longest demanded piece,
\* solve returns an error with its reason and attempts nothing: no pattern
\* is seeded, no backend call is made, no normal result is returned.
C2_TooShortRejected ==
    TooShort =>
        /\ patterns = <<>>
        /\ BackendCalls = 0
        /\ result.kind # "normal"
        /\ Returned =>
              /\ result.kind = "error"
              /\ result.error = "Master roll length must be at least as long as the longest beam"

C2_Witness == TooShort /\ pc = "exited" /\ result.kind = "error"

PreconditionViolated ==
    /\ request.readable
    /\ \/ num_types = 0
       \/ \E i \in 1..num_types : unique_lengths[i] <= 0 \/ unique_quantities[i] < 1

\* C3: every precondition is checked before the algorithm starts.  A request
\* with no demand, a length <= 0 or a quantity < 1 is answered with an error
\* and never reaches seeding, the loop or the integer solve.
C3_PreconditionsChecked ==
    PreconditionViolated =>
        /\ patterns = <<>>
        /\ BackendCalls = 0
        /\ result.kind # "normal"
        /\ Returned => result.kind = "error"

\* C4: the convergence field names the reason the loop ended: "optimal"
\* only after a break on reduced_cost >= -1e-5, and "iteration_cap" when all
\* max_iterations iterations ran without convergence (stated for the
\* results of valid inputs).
C4_ConvergenceNamesExit ==
    (ValidInput /\ NormalReturn) =>
        /\ result.convergence = "optimal" => loopExit = "converged"
        /\ loopExit = "exhausted" => result.convergence = "iteration_cap"

\* C5: stalling guard.  A priced pattern that is already in the pool is not
\* appended (the loop ends as stalled), so the pool never holds two equal
\* patterns (stated for the solves of valid inputs).
C5_NoEqualPatterns ==
    ValidInput =>
        \A i, j \in 1..Len(patterns) : i # j => patterns[i] # patterns[j]

\* C6: a backend call that ends with a status other than optimal is fatal:
\* solve returns an error description, never a normal result.
C6_BackendErrorFatal ==
    (Returned /\ nonOptimal) => result.kind = "error"

\* C7: the process exits with code 0 exactly when it printed a successful
\* result, and with a non-zero code whenever it printed an error description.
C7_ExitCode ==
    pc = "exited" => (exit_code = 0 <=> result.kind = "normal")

FeasiblePattern(p) ==
    /\ \A i \in 1..num_types : p[i] >= 0
    /\ Dot(unique_lengths, p) <= master_roll_length

\* C8: pattern feasibility.  For a valid input every pattern of the pool, at
\* every point of the solve, has non-negative entries and fits the roll, and
\* every pattern of the result has per-roll waste w with 0 <= w < L.
C8_PatternFeasibility ==
    ValidInput =>
        /\ \A j \in 1..Len(patterns) : FeasiblePattern(patterns[j])
        /\ \A k \in 1..Len(result.patterns) :
              /\ result.patterns[k].waste
                    = master_roll_length - Dot(unique_lengths, patterns[result.patterns[k].id])
              /\ 0 <= result.patterns[k].waste
              /\ result.patterns[k].waste < master_roll_length

C8_Witness ==
    /\ ValidInput /\ NormalReturn
    /\ \E k \in 1..Len(result.patterns) : result.patterns[k].id > num_types
    /\ \E k \in 1..Len(result.patterns) : result.patterns[k].waste > 0

\* C9: roll count lower bound.  For a valid input a normal result has
\* totalRolls * L >= sum of length * quantity, so totalWaste is not negative.
C9_RollLowerBound ==
    (ValidInput /\ NormalReturn) =>
        /\ result.totalRolls * master_roll_length >= Dot(unique_lengths, unique_quantities)
        /\ result.totalRolls >= CeilDiv(Dot(unique_lengths, unique_quantities), master_roll_length)
        /\ result.totalWaste >= 0

C9_Witness ==
    /\ ValidInput /\ NormalReturn
    /\ num_types = 2
    /\ result.totalRolls >= 2
    /\ result.totalRolls * master_roll_length = Dot(unique_lengths, unique_quantities)

PiecesPerRoll == master_roll_length \div unique_lengths[1]

\* C10: single piece type.  With exactly one demand (l0, q0) the loop
\* converges in its first iteration without adding a column and the result
\* is ceil(q0 / floor(L / l0)) rolls of the seed pattern; with l0 = L it is
\* q0 rolls of pattern [1] without waste; with q0 * l0 <= L it is one roll.
C10_SinglePieceType ==
    (ValidInput /\ num_types = 1) =>
        /\ patterns \in {<<>>, << <<PiecesPerRoll>> >>}
        /\ iteration <= 1
        /\ Returned =>
              /\ result.kind = "normal"
              /\ result.iterations = 1
              /\ loopExit = "converged"
              /\ patterns = << <<PiecesPerRoll>> >>
              /\ result.totalRolls = CeilDiv(unique_quantities[1], PiecesPerRoll)
              /\ Len(result.patterns) = 1
              /\ result.patterns[1].rollsUsed = result.totalRolls
              /\ unique_lengths[1] = master_roll_length =>
                    /\ result.totalRolls = unique_quantities[1]
                    /\ patterns = << <<1>> >>
                    /\ result.patterns[1].waste = 0
                    /\ result.totalWaste = 0
              /\ unique_quantities[1] * unique_lengths[1] <= master_roll_length =>
                    result.totalRolls = 1

C10_Witness ==
    /\ ValidInput /\ num_types = 1 /\ NormalReturn
    /\ unique_lengths[1] < master_roll_length
    /\ result.totalRolls = 2

====
